---- MODULE Spec2Model ----
(***************************************************************************)
(* Configuration resolution of mapchete: get_clean_configuration           *)
(* (mapchete/config_utils.py) and raster2pyramid with its helper _get_zoom *)
(* (mapchete/cli/default/pyramid.py).  Each call is one action; the state  *)
(* records the arguments of the call and everything it produced.           *)
(***************************************************************************)
EXTENDS Integers, Sequences, FiniteSets, TLC

VARIABLES pc, args, out

vars == <<pc, args, out>>

(* ------------------------------ bounds -------------------------------- *)

\* largest zoom value drawn for requests and for the best-zoom estimator
MaxZoom == 2
\* longest explicit zoom request drawn (lengths above 2 are the invalid ones)
MaxLen == 3
\* largest band count of an input raster drawn
MaxBands == 4

(* ------------------------- python conventions ------------------------- *)

\* Python's None where the surrounding values are strings
None == "None"
\* no exception was raised
NoError == "ok"

SeqToSet(s) == {s[i] : i \in 1..Len(s)}

\* range(a, b): a, a+1, ..., b-1 (empty when b <= a)
range(a, b) == [i \in 1..(b - a) |-> a + i - 1]

(* ------------------------------ geometry ------------------------------ *)
(* A planar geometry built from axis-parallel boxes with integer corners   *)
(* is the set of cells of the grid it covers: a lattice point <<x, y>>     *)
(* with x and y even is a corner, with one odd coordinate an open edge,    *)
(* with both odd an open unit square.  Closed boxes, their unions and      *)
(* their intersections are exactly unions and intersections of such sets.  *)

\* Polygon([ul, ur, lr, ll]) of a box <<left, bottom, right, top>>
Polygon(box) ==
    {<<x, y>> : x \in (2 * box[1])..(2 * box[3]), y \in (2 * box[2])..(2 * box[4])}

\* Polygon(): the empty polygon
EmptyPolygon == {}

\* shapely.ops.cascaded_union of a collection of polygons
cascaded_union(bboxes) == UNION bboxes

\* a.intersection(b)
intersection(a, b) == a \cap b

IsSquare(p) == p[1] % 2 = 1 /\ p[2] % 2 = 1
IsEdge(p) == (p[1] % 2) + (p[2] % 2) = 1
IsCorner(p) == p[1] % 2 = 0 /\ p[2] % 2 = 0
Near(p, q) ==
    /\ p[1] - q[1] \in {0 - 1, 0, 1}
    /\ p[2] - q[2] \in {0 - 1, 0, 1}

\* the cells of g that belong to no square of g: lines and points
Dangling(g) == {p \in g : ~ \E q \in g : IsSquare(q) /\ Near(p, q)}

\* geometry.geom_type; a multi-part geometry is named like its single-part
\* form ("Polygon" for MultiPolygon too), both take the same branch below
geom_type(g) ==
    IF g = {} THEN "GeometryCollection"
    ELSE IF \E p \in g : IsSquare(p)
         THEN IF Dangling(g) = {} THEN "Polygon" ELSE "GeometryCollection"
    ELSE IF \E p \in g : IsEdge(p)
         THEN IF \E p \in g : IsCorner(p) /\ ~ \E q \in g : IsEdge(q) /\ Near(p, q)
              THEN "GeometryCollection" ELSE "LineString"
    ELSE "Point"

(* -------------------- get_clean_configuration ------------------------- *)

Files == <<"file1", "file2">>

\* raster.bounds of the input rasters: <<left, bottom, right, top>>
raster_bounds == [file1 |-> <<0, 0, 1, 1>>, file2 |-> <<2, 0, 3, 1>>]

\* config.at_zoom(zoom)["input_files"]: the files whose path is present at
\* that zoom; since[f] is the first zoom at which file f is used
at_zoom(since, zoom) == {f \in SeqToSet(Files) : zoom >= since[f]}

\* lines 42-62: the job file and the process file must exist
check_files(files) ==
    IF files = "no_mapchete_file" THEN "IOError: mapchete file is not available"
    ELSE IF files = "no_process_file_key" THEN "Exception: 'process_file' parameter is missing"
    ELSE IF files = "no_process_file" THEN "IOError: process file is not available"
    ELSE NoError

\* the zoom fields read in the order of the spec's resolution list
config_zoom_minmax_first(raw_config) ==
    IF {"process_minzoom", "process_maxzoom"} \subseteq DOMAIN raw_config
    THEN <<raw_config["process_minzoom"], raw_config["process_maxzoom"]>>
    ELSE IF "process_zoom" \in DOMAIN raw_config
    THEN <<raw_config["process_zoom"]>>
    ELSE <<>>

\* lines 64-74: zoom from the job description (<<>> is None)
config_zoom(raw_config) ==
    IF "process_zoom" \in DOMAIN raw_config
    THEN <<raw_config["process_zoom"]>>
    ELSE IF {"process_minzoom", "process_maxzoom"} \subseteq DOMAIN raw_config
    THEN <<raw_config["process_minzoom"], raw_config["process_maxzoom"]>>
    ELSE <<>>

\* the override is used only when the job description gives no zoom
overwrite_zoom_config_first(zoom, additional) ==
    IF zoom # <<>> THEN zoom ELSE additional

\* lines 76-77: a non-empty zoom in additional_parameters replaces it
overwrite_zoom(zoom, additional) ==
    IF additional # <<>> THEN additional ELSE zoom

\* lines 79-99: the exception zoom resolution raises, if any
zoom_error(zoom) ==
    IF zoom = <<>> THEN "Exception: No zoom level(s) provided."
    ELSE IF Len(zoom) = 1 THEN NoError
    ELSE IF Len(zoom) = 2
         THEN IF \E i \in 1..2 : ~ (zoom[i] >= 0)
              THEN "ValueError: Zoom levels must be greater 0."
              ELSE NoError
    ELSE "ValueError: Zoom level parameter requires one or two value(s)."

\* lines 81-95: the zoom levels of a request that raised nothing
resolve_zoom_levels(zoom) ==
    IF Len(zoom) = 1 THEN zoom
    ELSE IF zoom[1] < zoom[2] THEN range(zoom[1], zoom[2] + 1)
    ELSE range(zoom[2], zoom[1] + 1)

\* lines 105-110: the first zoom level the engine finds invalid raises
validity_error(zoom_levels, invalid_zooms) ==
    IF \E i \in 1..Len(zoom_levels) : zoom_levels[i] \in invalid_zooms
    THEN "Exception: configuration is not valid at zoom"
    ELSE NoError

\* line 105: the loop variable `zoom` keeps the last zoom level after the loop
zoom_after_validation(zoom_levels) == zoom_levels[Len(zoom_levels)]

\* lines 119-124: caller bounds must have four values
bounds_error(additional_bounds) ==
    IF additional_bounds # <<>> /\ Len(additional_bounds) # 4
    THEN "ValueError: Invalid number of process bounds."
    ELSE NoError

\* lines 113-125: bounds of the job description, replaced by caller bounds
process_bounds(config_bounds, additional_bounds) ==
    IF additional_bounds # <<>> THEN additional_bounds ELSE config_bounds

\* lines 131-143: union of the bounding boxes of the present input files
files_area(input_files) ==
    cascaded_union({Polygon(raster_bounds[f]) : f \in input_files})

\* the intersection with the user bounds, kept as it is
out_area_raw(area, bounds) ==
    IF bounds # <<>> THEN intersection(area, Polygon(bounds)) ELSE area

\* lines 144-162: the files area, cut to the bounds; an intersection that is
\* no polygon, multipolygon or collection becomes the empty polygon
out_area(area, bounds) ==
    IF bounds # <<>>
    THEN LET cut == intersection(area, Polygon(bounds))
         IN  IF geom_type(cut) \in {"Polygon", "MultiPolygon", "GeometryCollection"}
             THEN cut ELSE EmptyPolygon
    ELSE area

\* the raster handle stays open when the block is left by an exception
with_exit_leak(open_handles, raised) ==
    IF raised THEN open_handles ELSE open_handles - 1

\* leaving `with rasterio.open(...) as raster:` closes the handle, whether
\* the block ends normally or raises
with_exit(open_handles, raised) == open_handles - 1

RECURSIVE open_after(_)
\* handles open after n rasters were opened and their blocks left normally
open_after(n) == IF n = 0 THEN 0 ELSE with_exit(open_after(n - 1) + 1, FALSE)

\* position of a file in the iteration over input_files
file_index(f) == CHOOSE i \in 1..Len(Files) : Files[i] = f

\* what a call that raised leaves behind
gcc_raised(err, zoom_levels, opened) ==
    [err |-> err, returned |-> FALSE, zoom_levels |-> zoom_levels,
     process_area |-> <<>>, opened |-> opened, open_handles |-> open_after(opened)]

\* lines 12-170
get_clean_configuration(a) ==
    LET zoom == overwrite_zoom(config_zoom(a.raw_config), a.zoom)
        zoom_levels == resolve_zoom_levels(zoom)
        bounds == process_bounds(a.process_bounds, a.bounds)
        input_files == at_zoom(a.since, zoom_after_validation(zoom_levels))
        area == out_area(files_area(input_files), bounds)
        per_zoom == Cardinality(input_files)
    IN  IF check_files(a.files) # NoError
        THEN gcc_raised(check_files(a.files), <<>>, 0)
        ELSE IF zoom_error(zoom) # NoError
        THEN gcc_raised(zoom_error(zoom), <<>>, 0)
        ELSE IF validity_error(zoom_levels, a.invalid_zooms) # NoError
        THEN gcc_raised(validity_error(zoom_levels, a.invalid_zooms), zoom_levels, 0)
        ELSE IF bounds_error(a.bounds) # NoError
        THEN gcc_raised(bounds_error(a.bounds), zoom_levels, 0)
        ELSE IF a.unreadable \in input_files
        THEN gcc_raised("IOError: raster cannot be opened", zoom_levels,
                        Cardinality({f \in input_files :
                                     file_index(f) < file_index(a.unreadable)}))
        ELSE [err |-> NoError, returned |-> TRUE, zoom_levels |-> zoom_levels,
              process_area |-> [z \in SeqToSet(zoom_levels) |-> area],
              opened |-> Len(zoom_levels) * per_zoom,
              open_handles |-> open_after(Len(zoom_levels) * per_zoom)]

(* --------------------------- raster2pyramid --------------------------- *)

\* pyramid.py lines 17-25; the values are carried as text
DTYPE_RANGES ==
    [uint8 |-> <<"0", "255">>,
     uint16 |-> <<"0", "65535">>,
     int16 |-> <<"-32768", "32767">>,
     uint32 |-> <<"0", "4294967295">>,
     int32 |-> <<"-2147483648", "2147483647">>,
     float32 |-> <<"-3.4028235e+38", "3.4028235e+38">>,
     float64 |-> <<"-1.7976931348623157e+308", "1.7976931348623157e+308">>]

\* minzoom when no zoom is requested
DefaultMinZoom == 1

\* most bands a PNG output carries
PngMaxBands == 3

\* lines 134-149: _get_zoom; best_zoom is what get_best_zoom_level returns.
\* With more than two values no branch assigns minzoom and the return
\* statement raises.
get_zoom(zoom, best_zoom) ==
    IF zoom = <<>>
    THEN [err |-> NoError, minzoom |-> DefaultMinZoom, maxzoom |-> best_zoom]
    ELSE IF Len(zoom) = 1
    THEN [err |-> NoError, minzoom |-> zoom[1], maxzoom |-> zoom[1]]
    ELSE IF Len(zoom) = 2
    THEN IF zoom[1] < zoom[2]
         THEN [err |-> NoError, minzoom |-> zoom[1], maxzoom |-> zoom[2]]
         ELSE [err |-> NoError, minzoom |-> zoom[2], maxzoom |-> zoom[1]]
    ELSE [err |-> "UnboundLocalError: local variable 'minzoom' referenced before assignment",
          minzoom |-> 0, maxzoom |-> 0]

\* lines 78, 83-84
output_bands(count, output_format) ==
    IF output_format = "PNG" /\ count > PngMaxBands THEN PngMaxBands ELSE count

\* lines 80, 83-85
output_dtype(count, input_dtype, output_format) ==
    IF output_format = "PNG" /\ count > PngMaxBands THEN "uint8" ELSE input_dtype

\* lines 81-82
nodataval(nodata) == IF nodata.declared /\ nodata.value # 0 THEN nodata.value ELSE 0

\* (band.min(), band.max()) of band `index` of the input raster
band_minmax(index) == <<ToString(index), ToString(100 + index)>>

\* lines 86-96: the pairs of the requested scale method
requested_scales(scale_method, input_dtype, bands) ==
    IF scale_method = "dtype_scale" THEN [i \in 1..bands |-> DTYPE_RANGES[input_dtype]]
    ELSE IF scale_method = "minmax_scale" THEN [i \in 1..bands |-> band_minmax(i)]
    ELSE IF scale_method = "crop" THEN [i \in 1..bands |-> <<"0", "255">>]
    ELSE <<>>

\* the uint8 override is decided on the band count of the input raster
scales_minmax_uncapped(scale_method, input_dtype, count, output_format) ==
    IF input_dtype = "uint8"
    THEN [i \in 1..count |-> <<None, None>>]
    ELSE requested_scales(scale_method, input_dtype, output_bands(count, output_format))

\* lines 86-101: scales_minmax when the block is left
scales_minmax(scale_method, input_dtype, count, output_format) ==
    IF input_dtype = "uint8"
    THEN [i \in 1..output_bands(count, output_format) |-> <<None, None>>]
    ELSE requested_scales(scale_method, input_dtype, output_bands(count, output_format))

\* lines 97-98
effective_scale_method(scale_method, input_dtype) ==
    IF input_dtype = "uint8" THEN None ELSE scale_method

\* lines 87-93: what raises inside the block
scale_error(scale_method, input_dtype, read_fails) ==
    IF scale_method = "dtype_scale" /\ input_dtype \notin DOMAIN DTYPE_RANGES
    THEN "KeyError: input dtype is not in DTYPE_RANGES"
    ELSE IF scale_method = "minmax_scale" /\ read_fails
    THEN "IOError: band cannot be read"
    ELSE NoError

\* what a call that raised leaves behind
r2p_raised(err, z, opened, open_handles) ==
    [err |-> err, minzoom |-> z.minzoom, maxzoom |-> z.maxzoom,
     zoomed |-> z.err = NoError, configured |-> FALSE, handed |-> FALSE,
     output_bands |-> 0, output_dtype |-> None, scale_method |-> None,
     scales_minmax |-> <<>>, nodataval |-> 0, mode |-> None,
     batch_zoom |-> <<>>, opened |-> opened, open_handles |-> open_handles,
     open_at_handover |-> 0]

\* lines 65-131
raster2pyramid(a) ==
    LET z == get_zoom(a.zoom, a.best_zoom)
        serr == scale_error(a.scale_method, a.dtype, a.read_fails)
    IN  IF z.err # NoError THEN r2p_raised(z.err, z, 0, 0)
        ELSE IF ~ a.readable
        THEN r2p_raised("IOError: raster cannot be opened", z, 0, 0)
        ELSE IF serr # NoError THEN r2p_raised(serr, z, 1, with_exit(1, TRUE))
        ELSE [err |-> NoError, minzoom |-> z.minzoom, maxzoom |-> z.maxzoom,
              zoomed |-> TRUE, configured |-> TRUE, handed |-> TRUE,
              output_bands |-> output_bands(a.count, a.output_format),
              output_dtype |-> output_dtype(a.count, a.dtype, a.output_format),
              scale_method |-> effective_scale_method(a.scale_method, a.dtype),
              scales_minmax |->
                  scales_minmax(a.scale_method, a.dtype, a.count, a.output_format),
              nodataval |-> nodataval(a.nodata),
              mode |-> IF a.overwrite THEN "overwrite" ELSE "continue",
              batch_zoom |-> <<z.minzoom, z.maxzoom>>,
              opened |-> 1, open_handles |-> with_exit(1, FALSE),
              open_at_handover |-> with_exit(1, FALSE)]

(* ------------------------------ inputs -------------------------------- *)

ZoomValues == (0 - 1)..MaxZoom

\* explicit zoom requests: None/empty, or up to MaxLen values
ZoomRequests == UNION {[1..n -> ZoomValues] : n \in 0..MaxLen}

ZoomKeys == {"process_zoom", "process_minzoom", "process_maxzoom"}

\* job descriptions: each zoom field is absent or one of three values
RawConfigs == UNION {[K -> {0 - 1, 0, MaxZoom}] : K \in SUBSET ZoomKeys}

\* user bounds: on file1; between the files, touching both; away from both;
\* on file1 and touching file2
Boxes == {<<0, 0, 1, 1>>, <<1, 0, 2, 1>>, <<0, 2, 3, 3>>, <<0, 0, 2, 1>>}

Sinces == [SeqToSet(Files) -> 0..(MaxZoom + 1)]

GccDefault ==
    [files |-> "ok", raw_config |-> <<>>, zoom |-> <<1>>, process_bounds |-> <<>>,
     bounds |-> <<>>, since |-> [f \in SeqToSet(Files) |-> 0], invalid_zooms |-> {},
     unreadable |-> None]

\* calls that vary the zoom fields and the zoom override
GccZoomArgs ==
    {[GccDefault EXCEPT !.raw_config = r, !.zoom = z] :
        r \in RawConfigs, z \in ZoomRequests}

\* calls that vary the input files per zoom and the bounds
GccAreaArgs ==
    {[GccDefault EXCEPT !.zoom = z, !.since = s, !.process_bounds = cb,
                        !.bounds = b, !.unreadable = u] :
        z \in {q \in ZoomRequests : Len(q) \in {1, 2} /\ \A i \in 1..Len(q) : q[i] >= 0},
        s \in Sinces,
        cb \in {<<>>} \cup Boxes,
        b \in {<<>>, <<0, 0, 1>>} \cup Boxes,
        u \in {None} \cup SeqToSet(Files)}

\* calls that vary the files on disk and the engine's verdict
GccEngineArgs ==
    {[GccDefault EXCEPT !.files = f, !.zoom = z, !.invalid_zooms = iz, !.bounds = b] :
        f \in {"ok", "no_mapchete_file", "no_process_file_key", "no_process_file"},
        z \in {q \in ZoomRequests : Len(q) \in {1, 2}},
        iz \in SUBSET (0..MaxZoom),
        b \in {<<>>, <<0, 0, 1>>}}

GccArgs == GccZoomArgs \cup GccAreaArgs \cup GccEngineArgs

Dtypes == DOMAIN DTYPE_RANGES \cup {"complex64"}

ScaleMethods == {None, "dtype_scale", "minmax_scale", "crop"}

R2pDefault ==
    [zoom |-> <<1>>, best_zoom |-> 1, count |-> 1, dtype |-> "uint16",
     scale_method |-> None, output_format |-> "GTiff",
     nodata |-> [declared |-> FALSE, value |-> 0], overwrite |-> FALSE,
     readable |-> TRUE, read_fails |-> FALSE]

\* calls that vary the zoom option and the estimator's answer
R2pZoomArgs ==
    {[R2pDefault EXCEPT !.zoom = z, !.best_zoom = b, !.readable = r] :
        z \in ZoomRequests, b \in 0..MaxZoom, r \in BOOLEAN}

\* calls that vary the input raster and the output options
R2pScaleArgs ==
    {[R2pDefault EXCEPT !.count = c, !.dtype = d, !.scale_method = m,
                        !.output_format = f, !.nodata = n, !.overwrite = o,
                        !.read_fails = rf] :
        c \in 1..MaxBands, d \in Dtypes, m \in ScaleMethods, f \in {"GTiff", "PNG"},
        n \in {[declared |-> FALSE, value |-> 0], [declared |-> TRUE, value |-> 0],
               [declared |-> TRUE, value |-> 255]},
        o \in BOOLEAN, rf \in BOOLEAN}

R2pArgs == R2pZoomArgs \cup R2pScaleArgs

(* --------------------------- state machine ---------------------------- *)

Init ==
    /\ pc = "idle"
    /\ args = <<>>
    /\ out = <<>>

GetCleanConfiguration ==
    /\ pc = "idle"
    /\ \E a \in GccArgs :
          /\ args' = a
          /\ out' = get_clean_configuration(a)
    /\ pc' = "get_clean_configuration"

Raster2Pyramid ==
    /\ pc = "idle"
    /\ \E a \in R2pArgs :
          /\ args' = a
          /\ out' = raster2pyramid(a)
    /\ pc' = "raster2pyramid"

Next == GetCleanConfiguration \/ Raster2Pyramid

Spec == Init /\ [][Next]_vars

(* ------------------------------ claims -------------------------------- *)

GccCalled == pc = "get_clean_configuration"
R2pCalled == pc = "raster2pyramid"

Min2(a, b) == IF a < b THEN a ELSE b
Max2(a, b) == IF a < b THEN b ELSE a

\* the integers lo, lo+1, ..., hi in ascending order
Interval(lo, hi) == [i \in 1..(hi - lo + 1) |-> lo + i - 1]

Declares(key) == key \in DOMAIN args.raw_config

ZoomResolutionErrors ==
    {"Exception: No zoom level(s) provided.",
     "ValueError: Zoom levels must be greater 0.",
     "ValueError: Zoom level parameter requires one or two value(s)."}

\* the bounds in force: the caller's, else the job description's
BoundsInForce == IF args.bounds # <<>> THEN args.bounds ELSE args.process_bounds

\* C1: in get_clean_configuration a non-empty override of one or two
\* non-negative integers alone decides zoom_levels, whatever zoom fields the
\* job description declares: [a] gives exactly a, and [a, b] gives every
\* integer from min(a, b) to max(a, b) in ascending order, once each.
C1_OverrideAloneDecidesZoomLevels ==
    (/\ GccCalled
     /\ args.files = "ok"
     /\ Len(args.zoom) \in {1, 2}
     /\ \A i \in 1..Len(args.zoom) : args.zoom[i] >= 0)
    => /\ out.err \notin ZoomResolutionErrors
       /\ out.zoom_levels =
            Interval(Min2(args.zoom[1], args.zoom[Len(args.zoom)]),
                     Max2(args.zoom[1], args.zoom[Len(args.zoom)]))

\* a descending override with an interior level, over a job description that
\* declares all three zoom fields
C1_Witness ==
    /\ GccCalled
    /\ out.returned
    /\ Len(args.zoom) = 2
    /\ args.zoom[1] > args.zoom[2] + 1
    /\ DOMAIN args.raw_config = ZoomKeys
    /\ Len(out.zoom_levels) = args.zoom[1] - args.zoom[2] + 1

\* C2: for every zoom z of the returned zoom_levels, process_area[z] is the
\* union of the bounding boxes of the inputs present at that same zoom z
\* (cut to the bounds in force), not of the inputs of another zoom level.
C2_AreaFromInputsOfSameZoom ==
    (GccCalled /\ out.returned)
    => \A z \in DOMAIN out.process_area :
          out.process_area[z] =
              out_area(files_area(at_zoom(args.since, z)), BoundsInForce)

\* C3: a negative zoom value, in the override or (without override) in the
\* job description's process_zoom or min/max pair, makes zoom resolution fail
\* and no configuration is returned, for a request of any length.
C3_NegativeZoomFails ==
    (/\ GccCalled
     /\ args.files = "ok"
     /\ \/ \E i \in 1..Len(args.zoom) : args.zoom[i] < 0
        \/ /\ args.zoom = <<>>
           /\ Declares("process_zoom")
           /\ args.raw_config["process_zoom"] < 0)
    => /\ out.err \in ZoomResolutionErrors
       /\ ~ out.returned

\* C4 as stated: without override, a declared min/max pair decides the range
\* even when process_zoom is declared too; process_zoom is used only when the
\* pair is not declared; with no zoom field resolution fails.
C4_MinMaxPairFirst ==
    (GccCalled /\ args.files = "ok" /\ args.zoom = <<>>)
    => IF Declares("process_minzoom") /\ Declares("process_maxzoom")
       THEN (args.raw_config["process_minzoom"] >= 0
             /\ args.raw_config["process_maxzoom"] >= 0)
            => out.zoom_levels =
                 Interval(Min2(args.raw_config["process_minzoom"],
                               args.raw_config["process_maxzoom"]),
                          Max2(args.raw_config["process_minzoom"],
                               args.raw_config["process_maxzoom"]))
       ELSE IF Declares("process_zoom")
       THEN out.zoom_levels = <<args.raw_config["process_zoom"]>>
       ELSE out.err = "Exception: No zoom level(s) provided." /\ ~ out.returned

\* C4 (amended): without override, a declared process_zoom decides: the
\* resolved zoom_levels are that single level even when the min/max pair is
\* declared too; the pair is used only when process_zoom is not declared and
\* gives the range between its two values, or an error when one of them is
\* negative; with neither process_zoom nor a complete pair resolution fails.
C4_SingleZoomFirst ==
    (GccCalled /\ args.files = "ok" /\ args.zoom = <<>>)
    => IF Declares("process_zoom")
       THEN /\ out.err \notin ZoomResolutionErrors
            /\ out.zoom_levels = <<args.raw_config["process_zoom"]>>
       ELSE IF Declares("process_minzoom") /\ Declares("process_maxzoom")
       THEN IF args.raw_config["process_minzoom"] >= 0
               /\ args.raw_config["process_maxzoom"] >= 0
            THEN /\ out.err \notin ZoomResolutionErrors
                 /\ out.zoom_levels =
                      Interval(Min2(args.raw_config["process_minzoom"],
                                    args.raw_config["process_maxzoom"]),
                               Max2(args.raw_config["process_minzoom"],
                                    args.raw_config["process_maxzoom"]))
            ELSE out.err = "ValueError: Zoom levels must be greater 0."
                 /\ ~ out.returned
       ELSE out.err = "Exception: No zoom level(s) provided." /\ ~ out.returned

\* all three zoom fields declared, no override: the single field decided
C4_Witness ==
    /\ GccCalled
    /\ out.returned
    /\ args.zoom = <<>>
    /\ DOMAIN args.raw_config = ZoomKeys
    /\ args.raw_config["process_minzoom"] # args.raw_config["process_maxzoom"]
    /\ out.zoom_levels = <<args.raw_config["process_zoom"]>>

\* C5: whenever raster2pyramid builds its configuration, scales_minmax holds
\* one (low, high) pair per output band, for every input raster and every
\* requested scale method, no scale method included.
C5_OnePairPerOutputBand ==
    (R2pCalled /\ out.configured) => Len(out.scales_minmax) = out.output_bands

\* C6: for a uint8 input raster the configuration raster2pyramid builds has
\* scale_method none and every band pair (None, None), whatever method was
\* requested, with one pair per output band after the PNG cap.
C6_Uint8NeverScaled ==
    (R2pCalled /\ out.configured /\ args.dtype = "uint8")
    => /\ out.scale_method = None
       /\ Len(out.scales_minmax) =
            (IF args.output_format = "PNG" /\ args.count > PngMaxBands
             THEN PngMaxBands ELSE args.count)
       /\ \A i \in 1..Len(out.scales_minmax) : out.scales_minmax[i] = <<None, None>>

\* a uint8 raster with more bands than PNG carries, a scale method requested
C6_Witness ==
    /\ R2pCalled
    /\ out.configured
    /\ args.dtype = "uint8"
    /\ args.scale_method = "dtype_scale"
    /\ args.output_format = "PNG"
    /\ args.count > PngMaxBands
    /\ Len(out.scales_minmax) = PngMaxBands

\* the bounds in force share no area with any input bounding box
BoundsMissEveryInput ==
    /\ Len(BoundsInForce) = 4
    /\ \A f \in SeqToSet(Files) :
          ~ \E p \in Polygon(BoundsInForce) \cap Polygon(raster_bounds[f]) : IsSquare(p)

C8_LongRequestRejected ==
    (/\ GccCalled \/ R2pCalled
     /\ GccCalled => args.files = "ok"
     /\ Len(args.zoom) > 2)
    => /\ out.err = "ValueError: Zoom level parameter requires one or two value(s)."
       /\ out.opened = 0
       /\ GccCalled => ~ out.returned
       /\ R2pCalled => ~ out.configured

\* C9: when get_clean_configuration or raster2pyramid is left, by return or
\* by an exception, every raster handle it opened is closed again, and none
\* is open when raster2pyramid hands the job to the execution engine.
C9_NoHandleLeftOpen ==
    (GccCalled \/ R2pCalled)
    => /\ out.open_handles = 0
       /\ (R2pCalled /\ out.handed) => out.open_at_handover = 0

\* raster2pyramid raised inside the block that holds the raster open
C9_Witness ==
    /\ R2pCalled
    /\ out.err = "KeyError: input dtype is not in DTYPE_RANGES"
    /\ out.opened = 1
    /\ out.open_handles = 0

\* C10: whenever _get_zoom returns, minzoom <= maxzoom, for a zoom option of
\* length 0, 1 or 2 and every value of the best-zoom estimator.
C10_ZoomRangeAscending ==
    (R2pCalled /\ out.zoomed) => out.minzoom <= out.maxzoom

====
